---------------------------- MODULE Spec2Model ----------------------------
(***************************************************************************)
(* AutoInsight: insight synthesis (backend/app/services/llm_service.py)    *)
(* and report rendering (backend/app/services/report_generator.py).        *)
(*                                                                         *)
(* Three specifications share the module:                                  *)
(*   SpecDigest  LLMService._prepare_analysis_context on bounded bundles   *)
(*   SpecGen     LLMService.__init__ and LLMService.generate_insights      *)
(*   SpecRender  ReportGenerator.generate_pdf_report / generate_html_report*)
(*                                                                         *)
(* A Python str is modelled as a sequence of units: a unit is a word (an   *)
(* atom of letters) or one separator character (" ", "_", ":", "&").       *)
(* Substring containment is containment of a contiguous run of units.      *)
(***************************************************************************)
EXTENDS Integers, Sequences, FiniteSets, TLC

VARIABLES
    settings,      \* app.config.settings: AI_PROVIDER and the two API keys
    svc,           \* the LLMService object: state, provider, client
    pc,            \* position of the current generate_insights call
    bundle,        \* the analysis bundle passed by the caller
    context,       \* the digest built by _prepare_analysis_context
    response,      \* what the backend returned to the current call
    calls,         \* generate_insights calls started
    invocations,   \* backend invocations (messages.create / completions.create)
    backendCalled, \* client invoked by the current call
    fallbackCalls, \* calls of _fallback_parse_insights
    path,          \* parse path taken by the current call
    result,        \* value returned by generate_insights
    error,         \* exception raised to the caller
    insights,      \* Insight list handed to the renderers
    visualizations,\* VisualizationData list handed to the renderers
    pdf,           \* generate_pdf_report: status, element list, returned path
    html,          \* generate_html_report: status, rendered document, returned path
    files          \* the report directory: path -> content

vars == <<settings, svc, pc, bundle, context, response, calls, invocations,
          backendCalled, fallbackCalls, path, result, error, insights,
          visualizations, pdf, html, files>>

None == "None"

(***************************************************************************)
(* Bounds                                                                  *)
(***************************************************************************)
MaxLines == 3        \* lines of a non-JSON backend response
MaxCalls == 2        \* generate_insights calls per service object
MaxCols  == 11       \* columns of a bundle
MaxCorr  == 6        \* high-correlation pairs of a bundle
MaxOut   == 6        \* outlier reports of a bundle
MaxViz   == 2        \* visualizations handed to a renderer
MaxRenders == 2      \* calls of each renderer per ReportGenerator
MaxFallbackLines == 4   \* lines of a text handed to the fallback parser alone

(***************************************************************************)
(* Python str operations on unit sequences                                 *)
(***************************************************************************)
SP == " "
NL == "\n"

\* str.upper(): separators are unchanged, a word maps to its upper-case form
UpperWord(w) ==
    CASE w = "Executive"  -> "EXECUTIVE"   [] w = "executive"  -> "EXECUTIVE"
      [] w = "Summary"    -> "SUMMARY"     [] w = "summary"    -> "SUMMARY"
      [] w = "Data"       -> "DATA"        [] w = "data"       -> "DATA"
      [] w = "Quality"    -> "QUALITY"     [] w = "quality"    -> "QUALITY"
      [] w = "Assessment" -> "ASSESSMENT"  [] w = "assessment" -> "ASSESSMENT"
      [] w = "Key"        -> "KEY"         [] w = "Patterns"   -> "PATTERNS"
      [] w = "Trends"     -> "TRENDS"      [] w = "Actionable" -> "ACTIONABLE"
      [] w = "Recommendations" -> "RECOMMENDATIONS"
      [] w = "Technical"  -> "TECHNICAL"   [] w = "Notes"      -> "NOTES"
      [] w = "notes"      -> "NOTES"       [] w = "technical"  -> "TECHNICAL"
      [] w = "alpha"      -> "ALPHA"       [] w = "beta"       -> "BETA"
      [] w = "gamma"      -> "GAMMA"       [] w = "see"        -> "SEE"
      [] OTHER            -> w

Upper(s) == [i \in 1..Len(s) |-> UpperWord(s[i])]

\* str.replace(' ', '_')
ReplaceSpaceByUnderscore(s) == [i \in 1..Len(s) |-> IF s[i] = SP THEN "_" ELSE s[i]]

\* str.strip(): drop leading and trailing whitespace units
IsSpace(u) == u = SP \/ u = NL

RECURSIVE LStrip(_)
LStrip(s) == IF s # <<>> /\ IsSpace(Head(s)) THEN LStrip(Tail(s)) ELSE s

RECURSIVE RStrip(_)
RStrip(s) ==
    IF s # <<>> /\ IsSpace(s[Len(s)]) THEN RStrip(SubSeq(s, 1, Len(s) - 1)) ELSE s

Strip(s) == RStrip(LStrip(s))

\* `sub in s` for str
Contains(s, sub) ==
    \E i \in 0..(Len(s) - Len(sub)) : SubSeq(s, i + 1, i + Len(sub)) = sub

(***************************************************************************)
(* The five sections: display names in the order of the dict literal of    *)
(* _fallback_parse_insights, which is also the order of the strict path.   *)
(***************************************************************************)
SectionOrder ==
    << "Executive Summary", "Data Quality Assessment", "Key Patterns & Trends",
       "Actionable Recommendations", "Technical Notes" >>

Sections == {SectionOrder[i] : i \in 1..Len(SectionOrder)}

\* the display name as a str
SectionName(sec) ==
    CASE sec = "Executive Summary"          -> <<"Executive", SP, "Summary">>
      [] sec = "Data Quality Assessment"    -> <<"Data", SP, "Quality", SP, "Assessment">>
      [] sec = "Key Patterns & Trends"      -> <<"Key", SP, "Patterns", SP, "&", SP, "Trends">>
      [] sec = "Actionable Recommendations" -> <<"Actionable", SP, "Recommendations">>
      [] sec = "Technical Notes"            -> <<"Technical", SP, "Notes">>

\* LLMInsight(section=..., content=..., confidence=...)
LLMInsight(sec, content, confidence) ==
    [section |-> sec, content |-> content, confidence |-> confidence]

(***************************************************************************)
(* LLMService._fallback_parse_insights                                     *)
(***************************************************************************)
\* line 256: the header test of one section against the stripped line
IsHeaderOf(sec, line) ==
    \/ Contains(Upper(line), Upper(SectionName(sec)))
    \/ Contains(Upper(line), Upper(ReplaceSpaceByUnderscore(SectionName(sec))))

\* lines 255-258: the first section, in dict order, whose header test passes
\* becomes current_section; with no match current_section is kept
HeaderSection(line, current_section) ==
    IF \E i \in 1..Len(SectionOrder) : IsHeaderOf(SectionOrder[i], line)
    THEN SectionOrder[CHOOSE i \in 1..Len(SectionOrder) :
                        /\ IsHeaderOf(SectionOrder[i], line)
                        /\ \A j \in 1..(i - 1) : ~IsHeaderOf(SectionOrder[j], line)]
    ELSE current_section

\* line 261: any(s.upper() in line.upper() for s in sections.keys())
MentionsSection(line) ==
    \E sec \in Sections : Contains(Upper(line), Upper(SectionName(sec)))

\* an iteration that replaces the section's content by the line
ParseLineOverwriting(st, rawline) ==
    LET line == Strip(rawline)
        cur  == HeaderSection(line, st.current_section)
    IN  IF cur # None /\ line # <<>> /\ ~MentionsSection(line)
        THEN [current_section |-> cur,
              sections |-> [st.sections EXCEPT ![cur] = line \o <<SP>>]]
        ELSE [current_section |-> cur, sections |-> st.sections]

\* an iteration whose append guard does not look for section names
ParseLineKeepingMentions(st, rawline) ==
    LET line == Strip(rawline)
        cur  == HeaderSection(line, st.current_section)
    IN  IF cur # None /\ line # <<>>
        THEN [current_section |-> cur,
              sections |-> [st.sections EXCEPT ![cur] = @ \o line \o <<SP>>]]
        ELSE [current_section |-> cur, sections |-> st.sections]

\* lines 251-262: one iteration of the loop over the lines
ParseLine(st, rawline) ==
    LET line == Strip(rawline)
        cur  == HeaderSection(line, st.current_section)
    IN  IF cur # None /\ line # <<>> /\ ~MentionsSection(line)
        THEN [current_section |-> cur,
              sections |-> [st.sections EXCEPT ![cur] = @ \o line \o <<SP>>]]
        ELSE [current_section |-> cur, sections |-> st.sections]

RECURSIVE ParseLines(_, _)
ParseLines(st, lines) ==
    IF lines = <<>> THEN st ELSE ParseLines(ParseLine(st, Head(lines)), Tail(lines))

\* lines 264-268: the list comprehension over sections.items()
RECURSIVE CollectInsights(_, _)
CollectInsights(sections, i) ==
    IF i > Len(SectionOrder) THEN <<>>
    ELSE LET sec == SectionOrder[i]
         IN  (IF Strip(sections[sec]) # <<>>
              THEN <<LLMInsight(sec, Strip(sections[sec]), "medium")>>
              ELSE <<>>) \o CollectInsights(sections, i + 1)

fallback_parse_insights(lines) ==
    LET start == [current_section |-> None, sections |-> [sec \in Sections |-> <<>>]]
    IN  CollectInsights(ParseLines(start, lines).sections, 1)


(***************************************************************************)
(* Python values: dicts are records, None in a dict-typed position is the  *)
(* record NoneDict, lists and strs are sequences.                          *)
(***************************************************************************)
NoneDict == [py_none |-> TRUE]

IsNone(d) == "py_none" \in DOMAIN d

\* truth value of an Optional[Dict]: None and {} are false
TruthyDict(d) == ~IsNone(d) /\ DOMAIN d # {}

\* truth value of d.get(k) for a list-valued key
TruthyGet(d, k) == k \in DOMAIN d /\ d[k] # <<>>

(***************************************************************************)
(* Number formatting.  A float is held as an integer count of thousandths. *)
(***************************************************************************)
\* f"{x:.{d}f}" for d in 1..3: round half even to d decimals, result in
\* units of 10^-d
FormatFixed(milli, d) ==
    LET unit == CASE d = 3 -> 1 [] d = 2 -> 10 [] d = 1 -> 100
        q    == milli \div unit
        r    == milli % unit
    IN  IF 2 * r > unit \/ (2 * r = unit /\ q % 2 = 1) THEN q + 1 ELSE q

\* f"{n:,}": the digit groups of n, most significant first
RECURSIVE FormatThousands(_)
FormatThousands(n) ==
    IF n < 1000 THEN <<n>> ELSE Append(FormatThousands(n \div 1000), n % 1000)

\* f"{n}": no grouping
FormatPlain(n) == <<n>>

(***************************************************************************)
(* LLMService._prepare_analysis_context                                    *)
(***************************************************************************)
ColumnCap      == 10    \* column_stats[:10]
CorrelationCap == 5     \* correlations['high_correlations'][:5]
OutlierCap     == 5     \* outliers[:5]

\* a cut that keeps one entry more than the cap
PrefixInclusive(list, n) == SubSeq(list, 1, IF Len(list) < n + 1 THEN Len(list) ELSE n + 1)

\* list[:n]
Prefix(list, n) == SubSeq(list, 1, IF Len(list) < n THEN Len(list) ELSE n)

Line(kind, args) == [kind |-> kind, args |-> args]

\* lines 71-79
OverviewLines(dataset_info, data_quality) ==
    << Line("# Dataset Analysis Summary", <<>>),
       Line("## Dataset Overview", <<>>),
       Line("- Rows", FormatThousands(dataset_info.rows)),
       Line("- Columns", FormatPlain(dataset_info.columns)),
       Line("- Total Size", FormatPlain(dataset_info.memory_usage)),
       Line("- Data Completeness", <<FormatFixed(data_quality.completeness_percentage, 1)>>),
       Line("- Duplicate Rows", FormatPlain(data_quality.duplicate_rows)) >>

\* lines 84-95: the lines of one column
ColumnLines(col_stat) ==
    << Line("### column", <<col_stat.name>>),
       Line("- Missing", <<col_stat.name, FormatFixed(col_stat.null_percentage, 1)>>),
       Line("- Unique values", <<col_stat.name, col_stat.unique_count>>) >>
    \o (IF "stats" \in DOMAIN col_stat /\ DOMAIN col_stat.stats # {}
        THEN LET stats == col_stat.stats
             IN  IF "mean" \in DOMAIN stats
                 THEN << Line("- Mean, Std", <<col_stat.name, FormatFixed(stats.mean, 2),
                                               FormatFixed(stats.std, 2)>>),
                         Line("- Range", <<col_stat.name, FormatFixed(stats.min, 2),
                                           FormatFixed(stats.max, 2)>>),
                         Line("- Skewness", <<col_stat.name, FormatFixed(stats.skewness, 2)>>) >>
                 ELSE IF "mode" \in DOMAIN stats
                 THEN << Line("- Mode", <<col_stat.name, stats.mode>>) >>
                 ELSE <<>>
        ELSE <<>>)

\* the concatenation of the lists of a list: what the appends of a loop add up to
RECURSIVE Flatten(_)
Flatten(lists) ==
    IF lists = <<>> THEN <<>> ELSE Head(lists) \o Flatten(Tail(lists))

\* lines 82-95
ColumnSection(column_stats) ==
    <<Line("## Key Column Statistics", <<>>)>>
    \o LET shown == Prefix(column_stats, ColumnCap)
       IN  Flatten([k \in 1..Len(shown) |-> ColumnLines(shown[k])])

\* lines 101-104
CorrelationLine(corr) ==
    << Line("- correlation", <<corr.column1, corr.column2,
                               FormatFixed(corr.correlation, 3), corr.strength>>) >>

\* the heading emitted for every correlations dict, found pairs or not
CorrelationSectionUnguarded(correlations) ==
    IF TruthyDict(correlations)
    THEN <<Line("## High Correlations Found", <<>>)>>
         \o (IF "high_correlations" \in DOMAIN correlations
             THEN LET shown == Prefix(correlations.high_correlations, CorrelationCap)
                  IN  Flatten([k \in 1..Len(shown) |-> CorrelationLine(shown[k])])
             ELSE <<>>)
    ELSE <<>>

\* lines 98-104
CorrelationSection(correlations) ==
    IF TruthyDict(correlations) /\ TruthyGet(correlations, "high_correlations")
    THEN <<Line("## High Correlations Found", <<>>)>>
         \o LET shown == Prefix(correlations.high_correlations, CorrelationCap)
            IN  Flatten([k \in 1..Len(shown) |-> CorrelationLine(shown[k])])
    ELSE <<>>

\* lines 110-113
OutlierLine(outlier) ==
    << Line("- outlier", <<outlier.column, outlier.outlier_count,
                           FormatFixed(outlier.outlier_percentage, 1)>>) >>

\* lines 107-113
OutlierSection(outliers) ==
    IF outliers # <<>>
    THEN <<Line("## Outlier Detection", <<>>)>>
         \o LET shown == Prefix(outliers, OutlierCap)
            IN  Flatten([k \in 1..Len(shown) |-> OutlierLine(shown[k])])
    ELSE <<>>

\* lines 116-121
ClusteringSection(clustering) ==
    IF TruthyDict(clustering)
    THEN << Line("## Clustering Analysis", <<>>),
            Line("- Number of clusters", <<clustering.n_clusters>>),
            Line("- Silhouette score", <<FormatFixed(clustering.silhouette_score, 3)>>),
            Line("- Cluster sizes", clustering.cluster_sizes) >>
    ELSE <<>>

\* lines 60-123
prepare_analysis_context(b) ==
    OverviewLines(b.dataset_info, b.data_quality)
    \o ColumnSection(b.column_stats)
    \o CorrelationSection(b.correlations)
    \o OutlierSection(b.outliers)
    \o ClusteringSection(b.clustering)


(***************************************************************************)
(* Bundles: the analysis results the caller passes in                      *)
(***************************************************************************)
\* one entry of column_stats; the numeric fields are functions of the name
ColumnStat(id) ==
    LET base == [name |-> id, dtype |-> id % 4,
                 null_percentage |-> (id * 12345) % 100001,
                 unique_count |-> id * 3]
    IN  CASE id % 4 = 1 -> [name |-> base.name, dtype |-> base.dtype,
                            null_percentage |-> base.null_percentage,
                            unique_count |-> base.unique_count,
                            stats |-> [mean |-> id * 1005, std |-> id * 115,
                                       min |-> id * 15, max |-> id * 2995,
                                       skewness |-> id * 125]]
          [] id % 4 = 2 -> [name |-> base.name, dtype |-> base.dtype,
                            null_percentage |-> base.null_percentage,
                            unique_count |-> base.unique_count,
                            stats |-> [mode |-> id]]
          [] id % 4 = 3 -> [name |-> base.name, dtype |-> base.dtype,
                            null_percentage |-> base.null_percentage,
                            unique_count |-> base.unique_count,
                            stats |-> [earliest |-> id]]
          [] OTHER      -> base

HighCorrelation(id) ==
    [column1 |-> id, column2 |-> id + 1, correlation |-> 1000 - id * 37, strength |-> id % 2]

OutlierReport(id) ==
    [column |-> id, outlier_count |-> id * 2, outlier_percentage |-> (id * 1250) % 100001]

Orders == {"ascending", "descending"}

\* the entry numbers of a list of n entries, in the given input order
InputOrder(n, order) ==
    [i \in 1..n |-> IF order = "ascending" THEN i ELSE n + 1 - i]

ColumnStats(n, order)      == [i \in 1..n |-> ColumnStat(InputOrder(n, order)[i])]
HighCorrelations(n, order) == [i \in 1..n |-> HighCorrelation(InputOrder(n, order)[i])]
OutlierReports(n, order)   == [i \in 1..n |-> OutlierReport(InputOrder(n, order)[i])]

DatasetInfos == { [rows |-> 1234567, columns |-> 12, memory_usage |-> 42] }

DataQualities ==
    { [total_rows |-> 1234567, total_columns |-> 12, missing_cells |-> 1500,
       completeness_percentage |-> 98765, duplicate_rows |-> 2000, memory_usage_mb |-> 12345],
      [total_rows |-> 999, total_columns |-> 1200, missing_cells |-> 0,
       completeness_percentage |-> 100000, duplicate_rows |-> 0, memory_usage_mb |-> 5],
      [total_rows |-> 1000, total_columns |-> 3, missing_cells |-> 1000000,
       completeness_percentage |-> 66665, duplicate_rows |-> 999, memory_usage_mb |-> 1995] }

ColumnLists == {ColumnStats(n, o) : n \in 0..MaxCols, o \in Orders}

CorrelationChoices ==
    {NoneDict, [correlation_matrix |-> <<>>], [high_correlations |-> <<>>]}
    \cup {[high_correlations |-> HighCorrelations(n, o)] : n \in 1..MaxCorr, o \in Orders}

OutlierLists == {OutlierReports(n, o) : n \in 0..MaxOut, o \in Orders}

ClusteringChoices ==
    {NoneDict, [k \in {} |-> 0],
     [n_clusters |-> 2, silhouette_score |-> 4567, cluster_sizes |-> <<60, 40>>]}

Bundle(di, cols, corr, outl, clus, dq) ==
    [dataset_info |-> di, column_stats |-> cols, correlations |-> corr,
     outliers |-> outl, clustering |-> clus, data_quality |-> dq]

DigestBundles ==
    {Bundle(di, cols, corr, outl, clus, dq) :
        di \in DatasetInfos, cols \in ColumnLists, corr \in CorrelationChoices,
        outl \in OutlierLists, clus \in ClusteringChoices,
        dq \in {CHOOSE q \in DataQualities : q.total_rows = 1234567}}

NoBundle == Bundle(CHOOSE di \in DatasetInfos : TRUE, <<>>, NoneDict, <<>>, NoneDict,
                   CHOOSE q \in DataQualities : q.total_rows = 1234567)

(***************************************************************************)
(* State outside the part a specification is about                         *)
(***************************************************************************)
NoResponse == [kind |-> "none", obj |-> <<>>, lines |-> <<>>]
NoService  == [state |-> "unbuilt", provider |-> None, client |-> None]
NoSettings == [AI_PROVIDER |-> "anthropic", ANTHROPIC_API_KEY |-> None, OPENAI_API_KEY |-> None]
NoRender   == [status |-> "idle", doc |-> <<>>, path |-> None, error |-> None, calls |-> 0]

genVars    == <<settings, svc, response, calls, invocations, backendCalled,
                fallbackCalls, path, result, error>>
renderVars == <<insights, visualizations, pdf, html, files>>

GenIdle ==
    /\ settings = NoSettings
    /\ svc = NoService
    /\ response = NoResponse
    /\ calls = 0
    /\ invocations = 0
    /\ backendCalled = None
    /\ fallbackCalls = 0
    /\ path = None
    /\ result = <<>>
    /\ error = None

RenderIdle ==
    /\ insights = <<>>
    /\ visualizations = <<>>
    /\ pdf = NoRender
    /\ html = NoRender
    /\ files = <<>>

(***************************************************************************)
(* SpecDigest: _prepare_analysis_context applied to every bounded bundle   *)
(***************************************************************************)
InitDigest ==
    /\ bundle \in DigestBundles
    /\ context = <<>>
    /\ pc = "digest_idle"
    /\ GenIdle
    /\ RenderIdle

Summarize ==
    /\ pc = "digest_idle"
    /\ context' = prepare_analysis_context(bundle)
    /\ pc' = "digest_done"
    /\ UNCHANGED <<bundle, genVars, renderVars>>

NextDigest == Summarize

SpecDigest == InitDigest /\ [][NextDigest]_vars


(***************************************************************************)
(* Backend responses.  A response that json.loads accepts is held by the   *)
(* kind of value it decodes to; a response it rejects is held as the list  *)
(* of its lines (text.split('\n')).                                        *)
(***************************************************************************)
JsonKeys == {"executive_summary", "data_quality", "patterns", "recommendations",
             "technical_notes"}

JsonContents == { <<>>, <<"alpha">> }

\* JSON objects: any subset of the five keys, each with a str value
JsonObjects == UNION { [K -> JsonContents] : K \in SUBSET JsonKeys }

\* valid JSON that is not an object
NonObjectKinds == {"array", "string", "number", "null"}

TextLines ==
    { <<SP>>,
      <<"alpha">>,
      <<SP, "beta", SP, "gamma", SP>>,
      <<"EXECUTIVE", SP, "SUMMARY">>,
      <<"Data", SP, "Quality", SP, "Assessment">>,
      <<"executive", "_", "summary">>,
      <<"TECHNICAL", SP, "NOTES", ":", SP, "alpha">> }

Texts == UNION { [1..n -> TextLines] : n \in 1..MaxLines }

Responses ==
    {[kind |-> "object", obj |-> o, lines |-> <<>>] : o \in JsonObjects}
    \cup {[kind |-> k, obj |-> <<>>, lines |-> <<>>] : k \in NonObjectKinds}
    \cup {[kind |-> "text", obj |-> <<>>, lines |-> t] : t \in Texts}

\* failures of the backend invocation itself
InvocationErrors == {"APIConnectionError", "AuthenticationError", "RateLimitError"}

\* dict.get(key, "")
Get(obj, key) == IF key \in DOMAIN obj THEN obj[key] ELSE <<>>

\* a strict path that emits a record only for the keys the object holds
StrictInsightsPresentOnly(insights_data) ==
    (IF "executive_summary" \in DOMAIN insights_data
     THEN <<LLMInsight("Executive Summary", insights_data["executive_summary"], "high")>> ELSE <<>>)
    \o (IF "data_quality" \in DOMAIN insights_data
        THEN <<LLMInsight("Data Quality Assessment", insights_data["data_quality"], "high")>> ELSE <<>>)
    \o (IF "patterns" \in DOMAIN insights_data
        THEN <<LLMInsight("Key Patterns & Trends", insights_data["patterns"], "medium")>> ELSE <<>>)
    \o (IF "recommendations" \in DOMAIN insights_data
        THEN <<LLMInsight("Actionable Recommendations", insights_data["recommendations"], "high")>> ELSE <<>>)
    \o (IF "technical_notes" \in DOMAIN insights_data
        THEN <<LLMInsight("Technical Notes", insights_data["technical_notes"], "medium")>> ELSE <<>>)

\* llm_service.py lines 165-171 and 223-229: the five records of the strict path
StrictInsights(insights_data) ==
    << LLMInsight("Executive Summary", Get(insights_data, "executive_summary"), "high"),
       LLMInsight("Data Quality Assessment", Get(insights_data, "data_quality"), "high"),
       LLMInsight("Key Patterns & Trends", Get(insights_data, "patterns"), "medium"),
       LLMInsight("Actionable Recommendations", Get(insights_data, "recommendations"), "high"),
       LLMInsight("Technical Notes", Get(insights_data, "technical_notes"), "medium") >>

Outcome(status, res, err, via, nfallback) ==
    [status |-> status, result |-> res, error |-> err, path |-> via, fallback |-> nfallback]

\* _generate_with_claude, lines 160-181: what follows the return of
\* messages.create.  json.loads raises JSONDecodeError on a text that is not
\* JSON (handler at 176-178); .get on a decoded value that is no dict raises
\* AttributeError, which the handler at 179-181 re-raises.
ClaudeParse(resp) ==
    CASE resp.kind = "text" ->
            Outcome("Done", fallback_parse_insights(resp.lines), None, "fallback", 1)
      [] resp.kind = "object" ->
            Outcome("Done", StrictInsights(resp.obj), None, "strict", 0)
      [] OTHER ->
            Outcome("Failed", <<>>, "AttributeError", "strict", 0)

\* an OpenAI path that recovers from a JSON decode failure as the Claude path does
OpenAIParseWithFallback(resp) ==
    CASE resp.kind = "text" ->
            Outcome("Done", fallback_parse_insights(resp.lines), None, "fallback", 1)
      [] resp.kind = "object" ->
            Outcome("Done", StrictInsights(resp.obj), None, "strict", 0)
      [] OTHER ->
            Outcome("Failed", <<>>, "AttributeError", "strict", 0)

\* _generate_with_openai, lines 220-236: every exception is re-raised
OpenAIParse(resp) ==
    CASE resp.kind = "text" ->
            Outcome("Failed", <<>>, "JSONDecodeError", "strict", 0)
      [] resp.kind = "object" ->
            Outcome("Done", StrictInsights(resp.obj), None, "strict", 0)
      [] OTHER ->
            Outcome("Failed", <<>>, "AttributeError", "strict", 0)

(***************************************************************************)
(* SpecGen: LLMService.__init__ and generate_insights                      *)
(***************************************************************************)
Providers == {"anthropic", "openai", "gemini"}
KeyValues == {None, "", "sk-key"}

\* a credential test that rejects None only
FalsyNoneOnly(key) == key = None

\* `not key`: None and "" are false
Falsy(key) == key = None \/ key = ""

SettingsChoices ==
    [AI_PROVIDER : Providers, ANTHROPIC_API_KEY : KeyValues, OPENAI_API_KEY : KeyValues]

\* the bundles generate_insights is called with
GenBundles ==
    { Bundle(CHOOSE di \in DatasetInfos : TRUE, ColumnStats(2, "ascending"),
             [high_correlations |-> HighCorrelations(1, "ascending")],
             OutlierReports(1, "ascending"), NoneDict,
             CHOOSE q \in DataQualities : q.total_rows = 1234567) }

InitGen ==
    /\ settings \in SettingsChoices
    /\ svc = NoService
    /\ pc = "idle"
    /\ bundle = NoBundle
    /\ context = <<>>
    /\ response = NoResponse
    /\ calls = 0
    /\ invocations = 0
    /\ backendCalled = None
    /\ fallbackCalls = 0
    /\ path = None
    /\ result = <<>>
    /\ error = None
    /\ RenderIdle

\* LLMService.__init__, lines 18-35
InitService(cfg) ==
    CASE cfg.AI_PROVIDER = "anthropic" ->
            IF Falsy(cfg.ANTHROPIC_API_KEY)
            THEN [state |-> "error", provider |-> cfg.AI_PROVIDER, client |-> None]
            ELSE [state |-> "ready", provider |-> cfg.AI_PROVIDER, client |-> "Anthropic"]
      [] cfg.AI_PROVIDER = "openai" ->
            IF Falsy(cfg.OPENAI_API_KEY)
            THEN [state |-> "error", provider |-> cfg.AI_PROVIDER, client |-> None]
            ELSE [state |-> "ready", provider |-> cfg.AI_PROVIDER, client |-> "OpenAI"]
      [] OTHER ->
            [state |-> "error", provider |-> cfg.AI_PROVIDER, client |-> None]

Construct ==
    /\ svc.state = "unbuilt"
    /\ svc' = InitService(settings)
    /\ error' = IF svc'.state = "error" THEN "ValueError" ELSE None
    /\ UNCHANGED <<settings, pc, bundle, context, response, calls, invocations,
                   backendCalled, fallbackCalls, path, result, renderVars>>

\* generate_insights lines 55-58: the method the call is dispatched to
Dispatch(provider) == IF provider = "anthropic" THEN "claude" ELSE "openai"

\* generate_insights, lines 37-58, up to the backend request of the dispatched
\* method (151 or 209), which blocks until the backend answers
GenerateInsights(b) ==
    /\ svc.state = "ready"
    /\ pc \in {"idle", "Done", "Failed"}
    /\ calls < MaxCalls
    /\ bundle' = b
    /\ context' = prepare_analysis_context(b)
    /\ calls' = calls + 1
    /\ backendCalled' = Dispatch(svc.provider)
    /\ invocations' = invocations + 1
    /\ pc' = "Invoking"
    /\ response' = NoResponse
    /\ path' = None
    /\ result' = <<>>
    /\ error' = None
    /\ UNCHANGED <<settings, svc, fallbackCalls, renderVars>>

Finish(out) ==
    /\ pc' = out.status
    /\ result' = out.result
    /\ error' = out.error
    /\ path' = out.path
    /\ fallbackCalls' = fallbackCalls + out.fallback

\* messages.create returned: lines 160-181
ClaudeReturns(resp) ==
    /\ pc = "Invoking"
    /\ backendCalled = "claude"
    /\ response' = resp
    /\ Finish(ClaudeParse(resp))
    /\ UNCHANGED <<settings, svc, bundle, context, calls, invocations, backendCalled,
                   renderVars>>

\* a handler that sends the request again instead of re-raising
ClaudeRaisesAndRetries(err) ==
    /\ pc = "Invoking"
    /\ backendCalled = "claude"
    /\ invocations' = invocations + 1
    /\ error' = err
    /\ UNCHANGED <<settings, svc, pc, bundle, context, response, calls, backendCalled,
                   fallbackCalls, path, result, renderVars>>

\* messages.create raised: the handler at 179-181 re-raises
ClaudeRaises(err) ==
    /\ pc = "Invoking"
    /\ backendCalled = "claude"
    /\ Finish(Outcome("Failed", <<>>, err, None, 0))
    /\ UNCHANGED <<settings, svc, bundle, context, response, calls, invocations,
                   backendCalled, renderVars>>

\* chat.completions.create returned: lines 220-236
OpenAIReturns(resp) ==
    /\ pc = "Invoking"
    /\ backendCalled = "openai"
    /\ response' = resp
    /\ Finish(OpenAIParse(resp))
    /\ UNCHANGED <<settings, svc, bundle, context, calls, invocations, backendCalled,
                   renderVars>>

\* chat.completions.create raised: the handler at 234-236 re-raises
OpenAIRaises(err) ==
    /\ pc = "Invoking"
    /\ backendCalled = "openai"
    /\ Finish(Outcome("Failed", <<>>, err, None, 0))
    /\ UNCHANGED <<settings, svc, bundle, context, response, calls, invocations,
                   backendCalled, renderVars>>

NextGen ==
    \/ Construct
    \/ \E b \in GenBundles : GenerateInsights(b)
    \/ \E resp \in Responses : ClaudeReturns(resp)
    \/ \E err \in InvocationErrors : ClaudeRaises(err)
    \/ \E resp \in Responses : OpenAIReturns(resp)
    \/ \E err \in InvocationErrors : OpenAIRaises(err)

SpecGen == InitGen /\ [][NextGen]_vars


(***************************************************************************)
(* ReportGenerator.generate_pdf_report: the element list                   *)
(***************************************************************************)
\* a flowable of the PDF or a block of the HTML document
Element(type, style, text, body, rows) ==
    [type |-> type, style |-> style, text |-> text, body |-> body, rows |-> rows]

Paragraph(text, style)     == Element("Paragraph", style, text, <<>>, <<>>)
BodyParagraph(body, style) == Element("Paragraph", style, "", body, <<>>)
Spacer     == Element("Spacer", "", "", <<>>, <<>>)
PageBreak  == Element("PageBreak", "", "", <<>>, <<>>)
Table(rows) == Element("Table", "", "", <<>>, rows)
Image(name)  == Element("Image", "proportional", name, <<>>, <<>>)

Row(label, value, unit) == [label |-> label, value |-> value, unit |-> unit]

\* content.split('\n\n')
RECURSIVE SplitParagraphs(_)
SplitParagraphs(content) ==
    IF \E i \in 1..(Len(content) - 1) : content[i] = NL /\ content[i + 1] = NL
    THEN LET i == CHOOSE k \in 1..(Len(content) - 1) :
                    /\ content[k] = NL /\ content[k + 1] = NL
                    /\ \A j \in 1..(k - 1) : ~(content[j] = NL /\ content[j + 1] = NL)
         IN  <<SubSeq(content, 1, i - 1)>>
             \o SplitParagraphs(SubSeq(content, i + 2, Len(content)))
    ELSE <<content>>

\* lines 115-118 and 151-154: one body paragraph per non-blank piece
RECURSIVE ParagraphsOf(_)
ParagraphsOf(pieces) ==
    IF pieces = <<>> THEN <<>>
    ELSE (IF Strip(Head(pieces)) # <<>>
          THEN <<BodyParagraph(Strip(Head(pieces)), "CustomBody")>>
          ELSE <<>>) \o ParagraphsOf(Tail(pieces))

\* lines 88-109
TitlePage(analysis_id, timestamp, dataset_info, data_quality) ==
    << Spacer,
       Paragraph("AutoInsight", "CustomTitle"),
       Paragraph("Automated Data Analysis Report", "Heading2"),
       Spacer,
       Table(<< Row("Report ID:", <<analysis_id>>, ""),
                Row("Generated:", <<timestamp>>, ""),
                Row("Dataset Size:", FormatThousands(dataset_info.rows)
                                     \o FormatPlain(dataset_info.columns), "rows x columns"),
                Row("Data Quality:", <<FormatFixed(data_quality.completeness_percentage, 1)>>,
                    "% complete") >>),
       PageBreak >>

\* lines 113-119: the paragraphs of the first Executive Summary insight
RECURSIVE ExecutiveSummaryBody(_)
ExecutiveSummaryBody(ins) ==
    IF ins = <<>> THEN <<>>
    ELSE IF Head(ins).section = "Executive Summary"
         THEN ParagraphsOf(SplitParagraphs(Head(ins).content))
         ELSE ExecutiveSummaryBody(Tail(ins))

\* lines 111-120
PdfExecutiveSummary(ins) ==
    <<Paragraph("Executive Summary", "CustomHeading")>>
    \o ExecutiveSummaryBody(ins)
    \o <<Spacer>>

\* lines 124-132
PdfQualityRows(data_quality) ==
    << Row("Metric", <<>>, "Value"),
       Row("Total Rows", FormatThousands(data_quality.total_rows), ""),
       Row("Total Columns", FormatPlain(data_quality.total_columns), ""),
       Row("Missing Cells", FormatThousands(data_quality.missing_cells), ""),
       Row("Completeness", <<FormatFixed(data_quality.completeness_percentage, 2)>>, "%"),
       Row("Duplicate Rows", FormatThousands(data_quality.duplicate_rows), ""),
       Row("Memory Usage", <<FormatFixed(data_quality.memory_usage_mb, 2)>>, " MB") >>

\* lines 122-145
PdfQualitySection(data_quality) ==
    << Paragraph("Data Quality Assessment", "CustomHeading"),
       Table(PdfQualityRows(data_quality)),
       Spacer >>

\* lines 148-155
RECURSIVE PdfInsightSections(_)
PdfInsightSections(ins) ==
    IF ins = <<>> THEN <<>>
    ELSE (IF Head(ins).section # "Executive Summary"
          THEN <<Paragraph(Head(ins).section, "CustomHeading")>>
               \o ParagraphsOf(SplitParagraphs(Head(ins).content))
               \o <<Spacer>>
          ELSE <<>>) \o PdfInsightSections(Tail(ins))

\* lines 162-173
PdfColumn(col_stat) ==
    << Element("Paragraph", "Heading3", "column", <<col_stat.name, col_stat.dtype>>, <<>>),
       Element("Paragraph", "CustomBody", "Missing | Unique",
               <<FormatFixed(col_stat.null_percentage, 1)>>
               \o FormatThousands(col_stat.unique_count), <<>>) >>
    \o (IF "stats" \in DOMAIN col_stat /\ DOMAIN col_stat.stats # {}
           /\ "mean" \in DOMAIN col_stat.stats
        THEN << Element("Paragraph", "CustomBody", "Mean, Std, Range",
                        << FormatFixed(col_stat.stats.mean, 2), FormatFixed(col_stat.stats.std, 2),
                           FormatFixed(col_stat.stats.min, 2), FormatFixed(col_stat.stats.max, 2) >>,
                        <<>>) >>
        ELSE <<>>)
    \o <<Spacer>>

\* lines 159-175
PdfColumnSection(column_stats) ==
    <<Paragraph("Column Statistics Summary", "CustomHeading")>>
    \o (LET shown == Prefix(column_stats, ColumnCap)
        IN  Flatten([k \in 1..Len(shown) |-> PdfColumn(shown[k])]))
    \o <<PageBreak>>

\* lines 180-189: the try block appends the name and the description, then
\* constructs the Image; when the constructor raises, the handler logs and
\* the loop goes on with what was appended so far
PdfVisualization(viz) ==
    IF viz.type = "png"
    THEN << Paragraph(viz.name, "Heading3"),
            Element("Paragraph", "CustomBody", viz.description, <<>>, <<>>) >>
         \o (IF viz.image = "raises_in_Image" THEN <<>>
             ELSE <<Image(viz.name), Spacer>>)
    ELSE <<>>

\* lines 177-189
PdfVisualSection(vizs) ==
    <<Paragraph("Visual Analysis", "CustomHeading")>>
    \o Flatten([k \in 1..Len(vizs) |-> PdfVisualization(vizs[k])])

\* lines 56-189: the element list handed to doc.build
PdfElements(analysis_id, timestamp, b, ins, vizs) ==
    TitlePage(analysis_id, timestamp, b.dataset_info, b.data_quality)
    \o PdfExecutiveSummary(ins)
    \o PdfQualitySection(b.data_quality)
    \o PdfInsightSections(ins)
    \o <<PageBreak>>
    \o PdfColumnSection(b.column_stats)
    \o PdfVisualSection(vizs)

\* lines 191-198: doc.build reads every image it was given; an image that
\* cannot be read then, or a failure of the document library or of the file
\* system, makes build raise
BuildRaises(elements, vizs, buildOk) ==
    \/ ~buildOk
    \/ \E i \in 1..Len(vizs) :
         /\ vizs[i].type = "png"
         /\ vizs[i].image = "raises_in_build"


(***************************************************************************)
(* ReportGenerator.generate_html_report: the template and its rendering    *)
(***************************************************************************)
\* line 435: content.replace('\n\n', '</p><p>').replace('\n', '<br>')
RECURSIVE ReplaceBlankLines(_)
ReplaceBlankLines(content) ==
    IF content = <<>> THEN <<>>
    ELSE IF Len(content) >= 2 /\ content[1] = NL /\ content[2] = NL
         THEN <<"</p><p>">> \o ReplaceBlankLines(SubSeq(content, 3, Len(content)))
         ELSE <<Head(content)>> \o ReplaceBlankLines(Tail(content))

ReplaceNewlines(content) ==
    [i \in 1..Len(content) |-> IF content[i] = NL THEN "<br>" ELSE content[i]]

\* lines 433-441
FormatInsight(insight) ==
    [section |-> insight.section,
     content |-> <<"<p>">> \o ReplaceNewlines(ReplaceBlankLines(insight.content)) \o <<"</p>">>,
     confidence |-> insight.confidence]

FormattedInsights(ins) == [i \in 1..Len(ins) |-> FormatInsight(ins[i])]

\* template lines 347-364
HtmlMetadata(analysis_id, timestamp, dataset_info, data_quality) ==
    << Element("header", "", "AutoInsight", <<>>, <<>>),
       Element("metadata", "", "", <<>>,
               << Row("Report ID", <<analysis_id>>, ""),
                  Row("Generated", <<timestamp>>, ""),
                  Row("Dataset Size", FormatThousands(dataset_info.rows)
                                      \o FormatPlain(dataset_info.columns), "x"),
                  Row("Data Quality", <<FormatFixed(data_quality.completeness_percentage, 1)>>,
                      "%") >>) >>

\* template lines 366-376: one block per entry of the list, in list order
HtmlInsightBlock(fi) ==
    << Element("h2", "insight-section", fi.section, <<>>, <<>>),
       Element("div", "insight-section", "", fi.content, <<>>) >>
    \o (IF fi.confidence # "" THEN <<Element("badge", fi.confidence, "", <<>>, <<>>)>>
        ELSE <<>>)

\* template lines 378-394
HtmlQualityRows(data_quality) ==
    << Row("Metric", <<>>, "Value"),
       Row("Total Rows", FormatThousands(data_quality.total_rows), ""),
       Row("Total Columns", FormatPlain(data_quality.total_columns), ""),
       Row("Missing Cells", FormatThousands(data_quality.missing_cells), ""),
       Row("Completeness", <<FormatFixed(data_quality.completeness_percentage, 2)>>, "%"),
       Row("Duplicate Rows", FormatThousands(data_quality.duplicate_rows), ""),
       Row("Memory Usage", <<FormatFixed(data_quality.memory_usage_mb, 2)>>, " MB") >>

HtmlQualitySection(data_quality) ==
    << Element("h2", "", "Data Quality Metrics", <<>>, <<>>),
       Element("table", "stats-table", "", <<>>, HtmlQualityRows(data_quality)) >>

\* template lines 397-405
HtmlImageBlock(viz) ==
    IF viz.type = "png"
    THEN << Element("h3", "visualization", viz.name, <<>>, <<>>),
            Element("img", "visualization", viz.name, <<>>, <<>>),
            Element("p", "viz-description", viz.description, <<>>, <<>>) >>
    ELSE <<>>

\* template lines 409-417
HtmlDashboardBlock(viz) ==
    IF viz.type = "html"
    THEN << Element("h3", "visualization", viz.name, <<>>, <<>>),
            Element("p", "viz-description", viz.description, <<>>, <<>>),
            Element("a", "visualization", viz.name, <<>>, <<>>) >>
    ELSE <<>>

\* template lines 396-418
HtmlVisualSection(vizs) ==
    <<Element("h2", "", "Visual Analysis", <<>>, <<>>)>>
    \o Flatten([k \in 1..Len(vizs) |-> HtmlImageBlock(vizs[k])])
    \o (IF \E i \in 1..Len(vizs) : vizs[i].type = "html"
        THEN <<Element("h2", "", "Interactive Dashboards", <<>>, <<>>)>>
             \o Flatten([k \in 1..Len(vizs) |-> HtmlDashboardBlock(vizs[k])])
        ELSE <<>>)

\* the document the template describes, lines 214-427, for the values passed
\* to render at lines 444-453
HtmlDocument(analysis_id, timestamp, b, ins, vizs) ==
    HtmlMetadata(analysis_id, timestamp, b.dataset_info, b.data_quality)
    \o (LET shown == FormattedInsights(ins)
        IN  Flatten([k \in 1..Len(shown) |-> HtmlInsightBlock(shown[k])]))
    \o HtmlQualitySection(b.data_quality)
    \o HtmlVisualSection(vizs)
    \o <<Element("footer", "", "AutoInsight", <<>>, <<>>)>>

\* the filters the template applies with `|`: lines 358, 362, 369, 387-392,
\* 401, 407, 414
TemplateFilters == {"format_number", "format", "safe", "basename", "selectattr", "list"}

\* line 430: Template(template_str) compiles against the default
\* environment, to which the module registers no filter; of the filters the
\* template names, jinja2 itself provides these
EnvironmentFilters == {"format", "safe", "selectattr", "list"}

\* lines 444-453: format_number and basename are passed to render as
\* template variables
RenderVariables == {"analysis_id", "timestamp", "dataset_info", "data_quality",
                    "insights", "visualizations", "format_number", "basename"}

\* jinja2 resolves a filter name in the environment's filters when it
\* compiles the template; a name it does not find outside a conditional
\* block (line 358) is a TemplateAssertionError raised by Template()
TemplateCompiles == TemplateFilters \subseteq EnvironmentFilters

(***************************************************************************)
(* SpecRender: the two renderers of one ReportGenerator                    *)
(***************************************************************************)
AnalysisId == "a1"
Timestamps == {1, 2}

\* lines 43 and 212
PdfPath(analysis_id)  == <<analysis_id, "report_" \o analysis_id \o ".pdf">>
\* a markup path that is the paginated document's path
HtmlPathShared(analysis_id) == <<analysis_id, "report_" \o analysis_id \o ".pdf">>
HtmlPath(analysis_id) == <<analysis_id, "report_" \o analysis_id \o ".html">>

NoFile == [exists |-> FALSE, complete |-> FALSE, doc |-> <<>>]

\* the content an Insight of a section carries
ContentOf(sec) ==
    CASE sec = "Executive Summary"          -> <<"alpha", NL, NL, "beta">>
      [] sec = "Data Quality Assessment"    -> <<"alpha">>
      [] sec = "Key Patterns & Trends"      -> <<>>
      [] sec = "Actionable Recommendations" -> <<"alpha", NL, "beta", NL, NL, SP>>
      [] sec = "Technical Notes"            -> <<"gamma">>

ConfidenceOf(sec) ==
    IF sec \in {"Key Patterns & Trends", "Technical Notes"} THEN "medium" ELSE "high"

\* every list of distinct sections, in any order, zero to five entries
SectionLists ==
    { l \in UNION { [1..n -> Sections] : n \in 0..Len(SectionOrder) } :
        \A i, j \in 1..Len(l) : i # j => l[i] # l[j] }

InsightLists ==
    { [i \in 1..Len(l) |-> LLMInsight(l[i], ContentOf(l[i]), ConfidenceOf(l[i]))] :
        l \in SectionLists }

VizNames == {"chart1", "chart2"}

Visualization(name, type, image) ==
    [name |-> name, description |-> "about " \o name, path |-> "viz/" \o name,
     type |-> type, image |-> image]

\* a raster image that loads, one whose Image() constructor raises, one that
\* fails only when the document is built, and an interactive document
VizChoices ==
    { Visualization(n, "png", "ok") : n \in VizNames }
    \cup { Visualization("chart1", "png", "raises_in_Image"),
           Visualization("chart1", "png", "raises_in_build"),
           Visualization("dash1", "html", "ok") }

VizLists == UNION { [1..n -> VizChoices] : n \in 0..MaxViz }

RenderBundle(dq) ==
    Bundle(CHOOSE di \in DatasetInfos : TRUE, ColumnStats(2, "ascending"),
           NoneDict, <<>>, NoneDict, dq)

InitRender ==
    /\ \/ /\ insights \in InsightLists
          /\ visualizations = <<Visualization("chart1", "png", "ok")>>
          /\ bundle = RenderBundle(CHOOSE q \in DataQualities : q.total_rows = 1234567)
       \/ /\ insights = StrictInsights([k \in JsonKeys |-> <<"alpha">>])
          /\ visualizations \in VizLists
          /\ \E dq \in DataQualities : bundle = RenderBundle(dq)
    /\ pdf = NoRender
    /\ html = NoRender
    /\ files = [p \in {PdfPath(AnalysisId), HtmlPath(AnalysisId)} |-> NoFile]
    /\ pc = "render"
    /\ context = <<>>
    /\ GenIdle

\* a generate_pdf_report that takes the Executive Summary Insight out of the
\* caller's list when it renders it
GeneratePdfReportConsuming(timestamp, outcome) ==
    LET elements == PdfElements(AnalysisId, timestamp, bundle, insights, visualizations)
        filepath == PdfPath(AnalysisId)
    IN  /\ pc = "render"
        /\ pdf.calls < MaxRenders
        /\ outcome = "ok"
        /\ pdf' = [status |-> "returned", doc |-> elements, path |-> filepath,
                   error |-> None, calls |-> pdf.calls + 1]
        /\ files' = [files EXCEPT ![filepath] =
                       [exists |-> TRUE, complete |-> TRUE, doc |-> elements]]
        /\ insights' = SelectSeq(insights, LAMBDA x : x.section # "Executive Summary")
        /\ UNCHANGED <<pc, bundle, context, genVars, visualizations, html>>

\* generate_pdf_report, lines 31-198.  outcome is what the document library
\* and the file system do: "ok", "build_error" (doc.build raises before the
\* file is written) or "write_error" (it raises while writing the file).
\* With outcome "ok" doc.build raises only for an image it cannot read, and
\* the error is then recorded as "ImageError".
GeneratePdfReport(timestamp, outcome) ==
    LET elements == PdfElements(AnalysisId, timestamp, bundle, insights, visualizations)
        filepath == PdfPath(AnalysisId)
        raises   == BuildRaises(elements, visualizations, outcome = "ok")
    IN  /\ pc = "render"
        /\ pdf.calls < MaxRenders
        /\ outcome = "write_error" => ~BuildRaises(elements, visualizations, TRUE)
        /\ pdf' = IF raises
                  THEN [status |-> "failed", doc |-> elements, path |-> None,
                        error |-> IF outcome = "ok" THEN "ImageError" ELSE "BuildError",
                        calls |-> pdf.calls + 1]
                  ELSE [status |-> "returned", doc |-> elements, path |-> filepath,
                        error |-> None, calls |-> pdf.calls + 1]
        /\ files' = IF ~raises
                    THEN [files EXCEPT ![filepath] =
                            [exists |-> TRUE, complete |-> TRUE, doc |-> elements]]
                    ELSE IF outcome = "write_error"
                    THEN [files EXCEPT ![filepath] =
                            [exists |-> TRUE, complete |-> FALSE, doc |-> <<>>]]
                    ELSE files
        /\ UNCHANGED <<pc, bundle, context, genVars, insights, visualizations, html>>

\* generate_html_report, lines 200-460.  writeOk is whether open/write at
\* 456-457 succeed.
GenerateHtmlReport(timestamp, writeOk) ==
    LET document == HtmlDocument(AnalysisId, timestamp, bundle, insights, visualizations)
        filepath == HtmlPath(AnalysisId)
    IN  /\ pc = "render"
        /\ html.calls < MaxRenders
        /\ IF ~TemplateCompiles
           THEN /\ html' = [status |-> "failed", doc |-> <<>>, path |-> None,
                            error |-> "TemplateAssertionError", calls |-> html.calls + 1]
                /\ files' = files
           ELSE IF ~writeOk
           THEN /\ html' = [status |-> "failed", doc |-> document, path |-> None,
                            error |-> "OSError", calls |-> html.calls + 1]
                /\ files' = [files EXCEPT ![filepath] =
                               [exists |-> TRUE, complete |-> FALSE, doc |-> <<>>]]
           ELSE /\ html' = [status |-> "returned", doc |-> document, path |-> filepath,
                            error |-> None, calls |-> html.calls + 1]
                /\ files' = [files EXCEPT ![filepath] =
                               [exists |-> TRUE, complete |-> TRUE, doc |-> document]]
        /\ UNCHANGED <<pc, bundle, context, genVars, insights, visualizations, pdf>>

NextRender ==
    \/ \E ts \in Timestamps, outcome \in {"ok", "build_error", "write_error"} :
          GeneratePdfReport(ts, outcome)
    \/ \E ts \in Timestamps, writeOk \in BOOLEAN : GenerateHtmlReport(ts, writeOk)

SpecRender == InitRender /\ [][NextRender]_vars


(***************************************************************************)
(* SpecFallback: _fallback_parse_insights applied to every bounded text    *)
(***************************************************************************)
\* a blank line, two content lines, a display-name header, an underscore
\* header, a header with text on its line, and a body line that mentions a
\* section name
FallbackLineChoices ==
    { <<SP>>,
      <<"alpha">>,
      <<SP, "beta", SP, "gamma", SP>>,
      <<"EXECUTIVE", SP, "SUMMARY">>,
      <<"executive", "_", "summary">>,
      <<"TECHNICAL", SP, "NOTES", ":", SP, "alpha">>,
      <<"see", SP, "Technical", SP, "Notes">> }

\* line 249: text.split('\n') has at least one line
FallbackTexts == UNION { [1..n -> FallbackLineChoices] : n \in 1..MaxFallbackLines }

InitFallback ==
    /\ response \in {[kind |-> "text", obj |-> <<>>, lines |-> t] : t \in FallbackTexts}
    /\ pc = "fallback_idle"
    /\ settings = NoSettings
    /\ svc = NoService
    /\ calls = 0
    /\ invocations = 0
    /\ backendCalled = None
    /\ fallbackCalls = 0
    /\ path = None
    /\ result = <<>>
    /\ error = None
    /\ bundle = NoBundle
    /\ context = <<>>
    /\ RenderIdle

\* one call of _fallback_parse_insights, lines 238-268
FallbackParse ==
    /\ pc = "fallback_idle"
    /\ result' = fallback_parse_insights(response.lines)
    /\ path' = "fallback"
    /\ fallbackCalls' = fallbackCalls + 1
    /\ pc' = "fallback_done"
    /\ UNCHANGED <<settings, svc, response, calls, invocations, backendCalled, error,
                   bundle, context, renderVars>>

NextFallback == FallbackParse

SpecFallback == InitFallback /\ [][NextFallback]_vars


(***************************************************************************)
(* Properties                                                              *)
(***************************************************************************)
\* the entries of a list that satisfy Test, in list order
RECURSIVE Filter(_, _)
Filter(Test(_), list) ==
    IF list = <<>> THEN <<>>
    ELSE (IF Test(Head(list)) THEN <<Head(list)>> ELSE <<>>) \o Filter(Test, Tail(list))

\* the sections among those of the Insight list, in the fixed section order
SectionsPresent(ins) == {ins[i].section : i \in 1..Len(ins)}

ExpectedHeadings(ins) ==
    LET InList(sec) == sec \in SectionsPresent(ins)
    IN  Filter(InList, SectionOrder)

\* the Insight section headings of a PDF element list: the heading-style
\* paragraphs that name a section, the heading of the metrics table aside
PdfInsightHeadings(doc) ==
    LET idx == {i \in 1..Len(doc) :
                  /\ doc[i].type = "Paragraph"
                  /\ doc[i].style = "CustomHeading"
                  /\ doc[i].text \in Sections
                  /\ ~(i < Len(doc) /\ doc[i + 1].type = "Table")}
        IsHeading(i) == i \in idx
        positions == Filter(IsHeading, [i \in 1..Len(doc) |-> i])
    IN  [k \in 1..Len(positions) |-> doc[positions[k]].text]

\* the Insight section headings of an HTML document
HtmlInsightHeadings(doc) ==
    LET IsHeading(e) == e.type = "h2" /\ e.style = "insight-section"
        hs == Filter(IsHeading, doc)
    IN  [k \in 1..Len(hs) |-> hs[k].text]

\* C1: rendered with the same bundle and the same Insight list (any subset
\* of the five sections, in any list order), the paginated and the markup
\* document present the same Insight section headings, in the fixed section
\* order.
C1_SameSectionHeadings ==
    /\ pdf.status = "returned" =>
          PdfInsightHeadings(pdf.doc) = ExpectedHeadings(insights)
    /\ (pdf.status = "returned" /\ html.status # "idle") =>
          HtmlInsightHeadings(html.doc) = PdfInsightHeadings(pdf.doc)

\* the rows of the data-quality table of a document: the table that has a
\* Completeness row
QualityTable(doc) ==
    LET IsQuality(e) == /\ e.type \in {"Table", "table"}
                        /\ \E r \in 1..Len(e.rows) : e.rows[r].label = "Completeness"
        ts == Filter(IsQuality, doc)
    IN  IF ts = <<>> THEN <<>> ELSE ts[1].rows

\* C2: for every data_quality object the data-quality tables of the two
\* documents list the same six metrics, in the same order, with the same
\* formatted values.
C2_SameQualityTable ==
    (pdf.status = "returned" /\ html.status # "idle") =>
        /\ Len(QualityTable(pdf.doc)) = 7
        /\ QualityTable(html.doc) = QualityTable(pdf.doc)

\* the rows the template writes agree with the rows of the PDF table
QualityRowsAgree ==
    HtmlQualityRows(bundle.data_quality) = PdfQualityRows(bundle.data_quality)

StrictKeys == << "executive_summary", "data_quality", "patterns", "recommendations",
                 "technical_notes" >>

StrictConfidences == << "high", "high", "medium", "high", "medium" >>

\* C3: whenever the backend response is a JSON object, generate_insights
\* returns exactly five Insights, in the fixed section order, with the
\* confidences high, high, medium, high, medium, on both backends; the
\* content is the value of the section's key, empty when the key is missing.
C3_StrictPath ==
    response.kind = "object" =>
        /\ pc = "Done"
        /\ path = "strict"
        /\ Len(result) = 5
        /\ \A i \in 1..5 :
              /\ result[i].section = SectionOrder[i]
              /\ result[i].confidence = StrictConfidences[i]
              /\ result[i].content = IF StrictKeys[i] \in DOMAIN response.obj
                                     THEN response.obj[StrictKeys[i]] ELSE <<>>

C3_Witness ==
    /\ response.kind = "object"
    /\ backendCalled = "openai"
    /\ "patterns" \notin DOMAIN response.obj
    /\ "executive_summary" \in DOMAIN response.obj
    /\ pc = "Done"
    /\ Len(result) = 5

\* C4: on the anthropic backend, once the backend has returned a response,
\* generate_insights ends in Done, whatever the response holds.
C4_ResponseAlwaysDone ==
    (backendCalled = "claude" /\ response.kind # "none") => pc = "Done"

\* C5: the fallback parser runs only on the anthropic backend's JSON decode
\* failure; a response of the openai backend that is not JSON raises to the
\* caller, with no Insight list and no call of the fallback parser.
C5_FallbackOnlyOnClaude ==
    /\ (backendCalled = "openai" /\ response.kind = "text") =>
          /\ pc = "Failed"
          /\ error = "JSONDecodeError"
          /\ result = <<>>
          /\ path # "fallback"
    /\ svc.provider = "openai" => fallbackCalls = 0
    /\ path = "fallback" => (backendCalled = "claude" /\ response.kind = "text")

C5_Witness ==
    /\ backendCalled = "openai"
    /\ response.kind = "text"
    /\ pc = "Failed"
    /\ calls = 2

\* the section a header line names: the first section, in the fixed order,
\* whose display name or underscore form the line contains
IsHeaderLine(line) == \E sec \in Sections : IsHeaderOf(sec, Strip(line))

\* what C6 describes: a header line switches the section and is itself no
\* content; every other non-blank line is content of the section of the
\* last header line before it
RECURSIVE ContentAfterHeaders(_, _, _)
ContentAfterHeaders(lines, current, acc) ==
    IF lines = <<>> THEN acc
    ELSE LET line == Strip(Head(lines))
         IN  IF IsHeaderLine(line)
             THEN ContentAfterHeaders(Tail(lines), HeaderSection(line, current), acc)
             ELSE IF current # None /\ line # <<>>
             THEN ContentAfterHeaders(Tail(lines), current,
                                      [acc EXCEPT ![current] = @ \o line \o <<SP>>])
             ELSE ContentAfterHeaders(Tail(lines), current, acc)

ExpectedFallback(lines) ==
    LET acc == ContentAfterHeaders(lines, None, [sec \in Sections |-> <<>>])
        HasContent(sec) == Strip(acc[sec]) # <<>>
        secs == Filter(HasContent, SectionOrder)
    IN  [k \in 1..Len(secs) |-> LLMInsight(secs[k], Strip(acc[secs[k]]), "medium")]

\* C6: on the fallback path the Insight of a section holds exactly the
\* content lines that follow the section's header line up to the next header
\* line, joined by single spaces; every Insight has confidence medium; a
\* section with no content lines is absent.
C6_FallbackContent ==
    (path = "fallback" /\ pc = "Done") => result = ExpectedFallback(response.lines)

\* the same statement for responses whose header lines all hold a display name
C6_DisplayNameHeaders ==
    (/\ path = "fallback"
     /\ pc = "Done"
     /\ \A i \in 1..Len(response.lines) :
           IsHeaderLine(response.lines[i]) => MentionsSection(Strip(response.lines[i])))
    => result = ExpectedFallback(response.lines)

\* C7: every generate_insights call invokes the backend exactly once, also
\* when the fallback parser runs; a failed invocation raises to the caller,
\* with no retry, no parse and no Insight list.
C7_SingleAttempt ==
    /\ invocations = calls
    /\ (pc = "Failed" /\ response.kind = "none") =>
          /\ error \in InvocationErrors
          /\ path = None
          /\ result = <<>>

C7_Witness ==
    /\ pc = "Failed"
    /\ response.kind = "none"
    /\ error = "RateLimitError"
    /\ calls = 2
    /\ fallbackCalls = 1

\* C8: construction fails, before any backend call, when the provider is
\* not one of the two supported values or the selected provider's credential
\* is None or empty; the other provider's credential plays no part.  After a
\* successful construction the provider is one of the two and every call is
\* dispatched to that backend.
C8_FailFastConstruction ==
    LET selectedKey == IF settings.AI_PROVIDER = "anthropic" THEN settings.ANTHROPIC_API_KEY
                       ELSE settings.OPENAI_API_KEY
        valid == /\ settings.AI_PROVIDER \in {"anthropic", "openai"}
                 /\ selectedKey \notin {None, ""}
    IN  /\ svc.state = "ready" => valid
        /\ svc.state = "error" => (~valid /\ calls = 0 /\ invocations = 0 /\ pc = "idle")
        /\ svc.state = "unbuilt" => (calls = 0 /\ invocations = 0)
        /\ svc.state = "ready" => svc.provider \in {"anthropic", "openai"}
        /\ backendCalled # None =>
              /\ svc.state = "ready"
              /\ (backendCalled = "claude") = (svc.provider = "anthropic")
              /\ (backendCalled = "openai") = (svc.provider = "openai")
              /\ svc.provider = settings.AI_PROVIDER

C8_Witness ==
    /\ svc.state = "error"
    /\ settings.AI_PROVIDER = "anthropic"
    /\ settings.ANTHROPIC_API_KEY = ""
    /\ settings.OPENAI_API_KEY = "sk-key"

\* the lines of one kind in the digest
LinesOf(digest, kind) ==
    LET IsKind(l) == l.kind = kind
    IN  Filter(IsKind, digest)

Min(a, b) == IF a < b THEN a ELSE b

\* C9: the digest holds the statistics of exactly the first min(n, 10)
\* columns, the first min(m, 5) high-correlation pairs and the first
\* min(k, 5) outlier reports, each in input order.
C9_PrefixCut ==
    pc = "digest_done" =>
        LET cols  == bundle.column_stats
            corrs == IF ~IsNone(bundle.correlations)
                        /\ "high_correlations" \in DOMAIN bundle.correlations
                     THEN bundle.correlations.high_correlations ELSE <<>>
            outs  == bundle.outliers
            colLines  == LinesOf(context, "### column")
            missLines == LinesOf(context, "- Missing")
            uniqLines == LinesOf(context, "- Unique values")
            corrLines == LinesOf(context, "- correlation")
            outLines  == LinesOf(context, "- outlier")
        IN  /\ Len(colLines) = Min(Len(cols), 10)
            /\ Len(missLines) = Len(colLines)
            /\ Len(uniqLines) = Len(colLines)
            /\ \A i \in 1..Len(colLines) :
                  /\ colLines[i].args[1] = cols[i].name
                  /\ missLines[i].args[1] = cols[i].name
                  /\ uniqLines[i].args = <<cols[i].name, cols[i].unique_count>>
            /\ Len(corrLines) = Min(Len(corrs), 5)
            /\ \A i \in 1..Len(corrLines) :
                  corrLines[i].args = <<corrs[i].column1, corrs[i].column2,
                                        corrs[i].correlation, corrs[i].strength>>
            /\ Len(outLines) = Min(Len(outs), 5)
            /\ \A i \in 1..Len(outLines) :
                  /\ outLines[i].args[1] = outs[i].column
                  /\ outLines[i].args[2] = outs[i].outlier_count

C9_Witness ==
    /\ pc = "digest_done"
    /\ Len(bundle.column_stats) = 11
    /\ bundle.column_stats[1].name = 11
    /\ ~IsNone(bundle.correlations)
    /\ "high_correlations" \in DOMAIN bundle.correlations
    /\ Len(bundle.correlations.high_correlations) = 6
    /\ bundle.correlations.high_correlations[1].column1 = 6
    /\ Len(bundle.outliers) = 6
    /\ Len(LinesOf(context, "### column")) = 10

OptionalHeadings ==
    {"## High Correlations Found", "## Outlier Detection", "## Clustering Analysis"}

OptionalEntries ==
    {"- correlation", "- outlier", "- Number of clusters", "- Silhouette score",
     "- Cluster sizes"}

\* the words a rendered report would use for the optional sections
OptionalTitles ==
    OptionalHeadings \cup {"High Correlations Found", "Outlier Detection",
                           "Clustering Analysis", "Correlations", "Outliers", "Clustering"}

\* C10: the digest emits the correlations, outliers and clustering headings
\* only when the input is present and non-empty, each followed by at least
\* one entry, and no entry without its heading; for a bundle with no
\* correlations and no clustering neither rendered report holds a heading or
\* content of those sections.
C10_NoEmptyOptionalSections ==
    pc = "digest_done" =>
        LET Has(kind) == \E i \in 1..Len(context) : context[i].kind = kind
            corrIn == /\ ~IsNone(bundle.correlations)
                      /\ "high_correlations" \in DOMAIN bundle.correlations
                      /\ Len(bundle.correlations.high_correlations) > 0
            clusIn == ~IsNone(bundle.clustering) /\ DOMAIN bundle.clustering # {}
            pdfDoc == PdfElements(AnalysisId, 1, bundle, <<>>, <<>>)
            htmlDoc == HtmlDocument(AnalysisId, 1, bundle, <<>>, <<>>)
        IN  /\ Has("## High Correlations Found") = corrIn
            /\ Has("- correlation") = corrIn
            /\ Has("## Outlier Detection") = (Len(bundle.outliers) > 0)
            /\ Has("- outlier") = (Len(bundle.outliers) > 0)
            /\ Has("## Clustering Analysis") = clusIn
            /\ Has("- Number of clusters") = clusIn
            /\ \A i \in 1..Len(context) :
                  context[i].kind \in OptionalHeadings =>
                      /\ i < Len(context)
                      /\ context[i + 1].kind \in OptionalEntries
            /\ (IsNone(bundle.correlations) /\ IsNone(bundle.clustering)) =>
                  /\ \A i \in 1..Len(pdfDoc) : pdfDoc[i].text \notin OptionalTitles
                  /\ \A i \in 1..Len(htmlDoc) : htmlDoc[i].text \notin OptionalTitles

C10_Witness ==
    /\ pc = "digest_done"
    /\ IsNone(bundle.correlations)
    /\ IsNone(bundle.clustering)
    /\ Len(bundle.outliers) = 2
    /\ Len(bundle.column_stats) = 3
    /\ \A i \in 1..Len(context) :
          context[i].kind \notin {"## High Correlations Found", "## Clustering Analysis"}

\* a raster-image visualization whose image cannot be loaded
Unloadable(viz) == viz.type = "png" /\ viz.image # "ok"

\* C11: with the document library and the file system working, a
\* generate_pdf_report call returns the path, and its element list is the one
\* of the same call without the raster images that cannot be loaded: no
\* heading, description or image element of such a visualization remains, and
\* everything else is rendered.
C11_VisualizationSkip ==
    (pdf.calls > 0 /\ pdf.error # "BuildError") =>
        LET Loadable(viz) == ~Unloadable(viz)
            kept == Filter(Loadable, visualizations)
        IN  /\ pdf.status = "returned"
            /\ pdf.path = PdfPath(AnalysisId)
            /\ \E ts \in Timestamps :
                  pdf.doc = PdfElements(AnalysisId, ts, bundle, insights, kept)

\* the first half of C11 alone: the call returns the path
C11_RenderCompletes ==
    (pdf.calls > 0 /\ pdf.error # "BuildError") => pdf.status = "returned"

\* the second half alone, for calls that returned
C11_NothingOfSkippedRemains ==
    pdf.status = "returned" =>
        \A i \in 1..Len(visualizations) :
            (/\ Unloadable(visualizations[i])
             /\ \A j \in 1..Len(visualizations) :
                   visualizations[j].name = visualizations[i].name =>
                       Unloadable(visualizations[j]))
            => \A k \in 1..Len(pdf.doc) :
                  pdf.doc[k].text \notin {visualizations[i].name,
                                          visualizations[i].description}

\* the members of a list
Range(list) == {list[i] : i \in 1..Len(list)}

\* C12: each renderer emits an Insight section heading only for a section
\* that has an Insight in the list; with no Executive Summary Insight neither
\* document holds an Executive Summary heading.
C12_MissingSectionsOmitted ==
    /\ pdf.status = "returned" =>
          /\ Range(PdfInsightHeadings(pdf.doc)) \subseteq SectionsPresent(insights)
          /\ "Executive Summary" \notin SectionsPresent(insights) =>
                \A k \in 1..Len(pdf.doc) : pdf.doc[k].text # "Executive Summary"
    /\ html.status # "idle" =>
          /\ Range(HtmlInsightHeadings(html.doc)) \subseteq SectionsPresent(insights)
          /\ "Executive Summary" \notin SectionsPresent(insights) =>
                \A k \in 1..Len(html.doc) : html.doc[k].text # "Executive Summary"

\* the same statement for the sections other than Executive Summary, and for
\* the document the template describes
C12_OtherSectionsOmitted ==
    /\ pdf.status = "returned" =>
          Range(PdfInsightHeadings(pdf.doc)) \ {"Executive Summary"}
              \subseteq SectionsPresent(insights)
    /\ \A ts \in Timestamps :
          Range(HtmlInsightHeadings(HtmlDocument(AnalysisId, ts, bundle, insights,
                                                 visualizations)))
              = SectionsPresent(insights)

\* C13: a generate_html_report call that the file system does not fail
\* writes report_<id>.html and returns that path; the file then holds one
\* complete document, the one the template describes for the inputs, also
\* after a second call.
C13_MarkupWrittenOnce ==
    (html.calls > 0 /\ html.error # "OSError") =>
        /\ html.status = "returned"
        /\ html.path = HtmlPath(AnalysisId)
        /\ files[HtmlPath(AnalysisId)].exists
        /\ files[HtmlPath(AnalysisId)].complete
        /\ \E ts \in Timestamps :
              files[HtmlPath(AnalysisId)].doc =
                  HtmlDocument(AnalysisId, ts, bundle, insights, visualizations)

\* what the code does instead: every call fails at Template(template_str)
\* and no file is written
C13_MarkupNeverWritten ==
    /\ ~files[HtmlPath(AnalysisId)].exists
    /\ html.calls > 0 => (html.status = "failed" /\ html.error = "TemplateAssertionError")

\* C14: the two paths of one analysis id are distinct; a generate_pdf_report
\* call, returning or failing, changes nothing but the paginated document's
\* file and leaves the markup file and the markup render's record as they
\* were, and a generate_html_report call does the same the other way round,
\* in whatever order the calls are made.
C14_IndependentRenders ==
    [][ /\ PdfPath(AnalysisId) # HtmlPath(AnalysisId)
        /\ DOMAIN files' = DOMAIN files
        /\ pdf' # pdf =>
              /\ html' = html
              /\ files'[HtmlPath(AnalysisId)] = files[HtmlPath(AnalysisId)]
        /\ html' # html =>
              /\ pdf' = pdf
              /\ files'[PdfPath(AnalysisId)] = files[PdfPath(AnalysisId)]
        /\ \A p \in DOMAIN files :
              files'[p] # files[p] => p = PdfPath(AnalysisId) \/ p = HtmlPath(AnalysisId)
      ]_vars

\* a paginated document written by one call is intact after the markup
\* render has failed twice and a second paginated render has failed
C14_Witness ==
    /\ pdf.calls = 2
    /\ pdf.status = "failed"
    /\ pdf.error = "BuildError"
    /\ html.calls = 2
    /\ html.status = "failed"
    /\ files[PdfPath(AnalysisId)].exists
    /\ files[PdfPath(AnalysisId)].complete
    /\ files[PdfPath(AnalysisId)].doc # <<>>
    /\ ~files[HtmlPath(AnalysisId)].exists

\* C15: no call of generate_pdf_report or generate_html_report, returning or
\* failing, changes the caller's bundle, visualization list or Insight list
\* (contents and order).
C15_InputsUnchanged ==
    [][ /\ bundle' = bundle
        /\ visualizations' = visualizations
        /\ insights' = insights ]_vars

\* both renderers have run, one returning and one failing, on an Insight
\* list that is not in the fixed section order
C15_Witness ==
    /\ pdf.status = "returned"
    /\ html.status = "failed"
    /\ Len(insights) = 5
    /\ insights[1].section = "Technical Notes"
    /\ insights[5].section = "Executive Summary"
    /\ Len(visualizations) = 1
    /\ Len(bundle.column_stats) = 2

\* the same for the digest and for generate_insights: the bundle a call was
\* given is the bundle the caller holds when the call ends
C15_DigestKeepsBundle == [][bundle' = bundle]_vars

C15_GenerateKeepsBundle == [][pc = "Invoking" => bundle' = bundle]_vars

\* the fallback parser has returned, in either specification that runs it
FallbackReturned ==
    path = "fallback" /\ pc \in {"Done", "fallback_done"}

\* C16: no line that is treated as a section header, whether it holds the
\* display name or the underscore form, appears in the content of any
\* returned Insight.
C16_HeaderNeverAppended ==
    FallbackReturned =>
        \A i \in 1..Len(response.lines) :
            IsHeaderLine(response.lines[i]) =>
                \A k \in 1..Len(result) :
                    ~Contains(result[k].content, Strip(response.lines[i]))

\* the same for the header lines that hold a display name
C16_DisplayNameNeverAppended ==
    FallbackReturned =>
        \A i \in 1..Len(response.lines) :
            MentionsSection(Strip(response.lines[i])) =>
                \A k \in 1..Len(result) :
                    ~Contains(result[k].content, Strip(response.lines[i]))

\* the position of a section in the fixed order
OrderIndex(sec) == CHOOSE i \in 1..Len(SectionOrder) : SectionOrder[i] = sec

\* what the parser's tests say of each line of a text: its stripped text,
\* whether it is a header line, whether it holds a display name, and the
\* section it names
LineFacts(lines) ==
    [i \in 1..Len(lines) |->
        LET line == Strip(lines[i])
        IN  [text     |-> line,
             header   |-> IsHeaderLine(line),
             mentions |-> MentionsSection(line),
             names    |-> HeaderSection(line, None)]]

\* for each line, the section of the last header line at or before it, None
\* before the first header line
GoverningSections(facts) ==
    [i \in 1..Len(facts) |->
        LET hs == {j \in 1..i : facts[j].header}
        IN  IF hs = {} THEN None
            ELSE facts[CHOOSE j \in hs : \A k \in hs : k <= j].names]

\* a content line: not blank and not a header line
IsContent(fact) == fact.text # <<>> /\ ~fact.header

\* the content lines governed by a section, each followed by a space, in
\* text order
ContentUnder(facts, gov, sec) ==
    Flatten([i \in 1..Len(facts) |->
                IF IsContent(facts[i]) /\ gov[i] = sec
                THEN facts[i].text \o <<SP>> ELSE <<>>])

\* C17: the fallback parser's result holds at most five Insights, each
\* section at most once and in the fixed section order whatever the order of
\* the headers in the text, each with non-empty trimmed content; every
\* content line under any occurrence of a section's header is held by the one
\* Insight of that section, and when every header line holds a display name
\* that Insight's content is exactly those lines joined by single spaces.
C17_FallbackShape ==
    FallbackReturned =>
        LET facts == LineFacts(response.lines)
            gov   == GoverningSections(facts)
        IN  /\ Len(result) <= 5
            /\ \A k \in 1..Len(result) :
                  /\ result[k].section \in Sections
                  /\ result[k].content # <<>>
                  /\ Strip(result[k].content) = result[k].content
            /\ \A j, k \in 1..Len(result) :
                  j < k => OrderIndex(result[j].section) < OrderIndex(result[k].section)
            /\ \A i \in 1..Len(facts) :
                  (IsContent(facts[i]) /\ gov[i] # None) =>
                      \E k \in 1..Len(result) :
                          /\ result[k].section = gov[i]
                          /\ Contains(result[k].content, facts[i].text)
            /\ (\A i \in 1..Len(facts) : facts[i].header => facts[i].mentions)
               => \A sec \in Sections :
                     LET under == ContentUnder(facts, gov, sec)
                     IN  IF under = <<>>
                         THEN \A k \in 1..Len(result) : result[k].section # sec
                         ELSE \E k \in 1..Len(result) :
                                 /\ result[k].section = sec
                                 /\ result[k].content = Strip(under)

\* a header that occurs twice, with content under both occurrences
C17_Witness ==
    /\ FallbackReturned
    /\ response.lines = << <<"EXECUTIVE", SP, "SUMMARY">>,
                           <<"alpha">>,
                           <<"EXECUTIVE", SP, "SUMMARY">>,
                           <<SP, "beta", SP, "gamma", SP>> >>
    /\ result = << LLMInsight("Executive Summary",
                              <<"alpha", SP, "beta", SP, "gamma">>, "medium") >>

\* headers in the reverse of the fixed order: the result is in the fixed order
C17_ReverseOrderReached ==
    /\ FallbackReturned
    /\ response.lines = << <<"TECHNICAL", SP, "NOTES", ":", SP, "alpha">>,
                           <<"alpha">>,
                           <<"EXECUTIVE", SP, "SUMMARY">>,
                           <<SP, "beta", SP, "gamma", SP>> >>
    /\ result = << LLMInsight("Executive Summary", <<"beta", SP, "gamma">>, "medium"),
                   LLMInsight("Technical Notes", <<"alpha">>, "medium") >>

\* the text without the lines that precede its first header line
FromFirstHeader(lines, facts) ==
    LET hs == {j \in 1..Len(facts) : facts[j].header}
    IN  IF hs = {} THEN <<>>
        ELSE SubSeq(lines, CHOOSE j \in hs : \A k \in hs : j <= k, Len(lines))

\* the text with every line that holds a display name replaced by the bare
\* display name of the section the line switches to
BareHeaders(lines, facts) ==
    [i \in 1..Len(lines) |->
        IF facts[i].mentions THEN SectionName(facts[i].names) ELSE lines[i]]

\* C18: the fallback parser discards every line before the first header
\* line and every line that holds a section's display name: the result is the
\* one of the text without the leading lines and the one of the text with
\* each such line cut down to the bare name; no such line is part of any
\* content, and the content line after it goes to the section it names.  A
\* text with no header line yields the empty list.
C18_DiscardedText ==
    FallbackReturned =>
        LET lines == response.lines
            facts == LineFacts(lines)
            gov   == GoverningSections(facts)
        IN  /\ (\A i \in 1..Len(facts) : ~facts[i].header) => result = <<>>
            /\ result = fallback_parse_insights(FromFirstHeader(lines, facts))
            /\ result = fallback_parse_insights(BareHeaders(lines, facts))
            /\ \A i \in 1..Len(facts) :
                  facts[i].mentions =>
                      /\ \A k \in 1..Len(result) :
                            ~Contains(result[k].content, facts[i].text)
                      /\ (i < Len(facts) /\ IsContent(facts[i + 1])) =>
                            \E k \in 1..Len(result) :
                                /\ result[k].section = facts[i].names
                                /\ Contains(result[k].content, facts[i + 1].text)
            /\ \A i \in 1..Len(facts) :
                  (IsContent(facts[i]) /\ gov[i] = None) =>
                      \/ \A k \in 1..Len(result) :
                            ~Contains(result[k].content, facts[i].text)
                      \/ \E j \in (i + 1)..Len(facts) :
                            /\ gov[j] # None
                            /\ Contains(facts[j].text, facts[i].text)

\* a leading line, a header, a body line that mentions another section and
\* a content line: only the content line is kept, under the mentioned section
C18_Witness ==
    /\ FallbackReturned
    /\ response.lines = << <<"alpha">>,
                           <<"EXECUTIVE", SP, "SUMMARY">>,
                           <<"see", SP, "Technical", SP, "Notes">>,
                           <<SP, "beta", SP, "gamma", SP>> >>
    /\ result = << LLMInsight("Technical Notes", <<"beta", SP, "gamma">>, "medium") >>

\* text on the line of a header is discarded
C18_SameLineTextReached ==
    /\ FallbackReturned
    /\ response.lines = << <<"TECHNICAL", SP, "NOTES", ":", SP, "alpha">> >>
    /\ result = <<>>

=============================================================================
